---- MODULE Spec2Model ----
(***************************************************************************)
(* A model of the request/response core of foreman/foreman.py: the URL     *)
(* builder, the four verb wrappers, the search-query builder and the       *)
(* generic get/search/post/put/delete operations of class Foreman.         *)
(*                                                                         *)
(* Python values are tagged records; a Python string is a sequence of      *)
(* one-character strings, so that concatenation, str() and join are        *)
(* computed and a URL's path segments can be counted.  A dict is the       *)
(* sequence of its <<key, value>> items in iteration order.                *)
(***************************************************************************)
EXTENDS Integers, Sequences, FiniteSets, TLC

VARIABLES
    py,         \* major version of the interpreter running the module (2 or 3)
    hostname,   \* Foreman.hostname
    port,       \* Foreman.port
    auth,       \* Foreman.__auth
    url,        \* Foreman.url, the API root
    pc,         \* "idle": no call in progress; "done": a call has ended and its
                \* caller holds the outcome; else the method blocked on a request
    op,         \* the public method last called, with its arguments
    sent,       \* the requests issued by that call, in order
    recv,       \* the responses received by that call, in order
    ret,        \* what the latest verb wrapper returned or raised
    outcome     \* what the call returned or raised to its caller

vars == <<py, hostname, port, auth, url, pc, op, sent, recv, ret, outcome>>

(***************************************************************************)
(* Bounds of the model.                                                    *)
(***************************************************************************)
MaxId == 2          \* ids range over 0..MaxId (callers) and 1..MaxId (server)
MaxFields == 2      \* entries of an identifier / search filter mapping
MaxResults == 2     \* elements of a `results` collection the server returns

(***************************************************************************)
(* Python values.                                                          *)
(***************************************************************************)
None == [t |-> "none"]
PyInt(i) == [t |-> "int", i |-> i]
PyStr(s) == [t |-> "str", s |-> s]
PyList(l) == [t |-> "list", l |-> l]
PyDict(d) == [t |-> "dict", d |-> d]

\* bool(v), as tested by `if v:` and `v and ...`
Truthy(v) ==
    CASE v.t = "none" -> FALSE
      [] v.t = "int"  -> v.i /= 0
      [] v.t = "str"  -> v.s /= <<>>
      [] v.t = "list" -> v.l /= <<>>
      [] v.t = "dict" -> v.d /= <<>>

Digit(d) ==
    CASE d = 0 -> "0" [] d = 1 -> "1" [] d = 2 -> "2" [] d = 3 -> "3"
      [] d = 4 -> "4" [] d = 5 -> "5" [] d = 6 -> "6" [] d = 7 -> "7"
      [] d = 8 -> "8" [] d = 9 -> "9"

RECURSIVE Decimal(_)
Decimal(n) ==
    IF n < 10 THEN <<Digit(n)>> ELSE Decimal(n \div 10) \o <<Digit(n % 10)>>

\* str(v) for the values the code passes to it
str(v) ==
    CASE v.t = "int"  -> IF v.i < 0 THEN <<"-">> \o Decimal(0 - v.i) ELSE Decimal(v.i)
      [] v.t = "str"  -> v.s
      [] v.t = "none" -> <<"N", "o", "n", "e">>

\* `k in d` for a dict d
Has(d, k) == \E n \in 1..Len(d.d) : d.d[n][1] = k

\* d.get(k)
Get(d, k) ==
    IF Has(d, k)
    THEN d.d[CHOOSE n \in 1..Len(d.d) : d.d[n][1] = k][2]
    ELSE None

\* d[k] = v: an existing key keeps its place, a new key goes last
SetItem(d, k, v) ==
    IF Has(d, k)
    THEN PyDict([n \in 1..Len(d.d) |-> IF d.d[n][1] = k THEN <<k, v>> ELSE d.d[n]])
    ELSE PyDict(Append(d.d, <<k, v>>))

\* sep.join(l) for a sequence l of strings
RECURSIVE Join(_, _)
Join(sep, l) ==
    IF l = <<>> THEN <<>>
    ELSE IF Len(l) = 1 THEN l[1]
    ELSE l[1] \o sep \o Join(sep, Tail(l))

(***************************************************************************)
(* String literals of the source.                                          *)
(***************************************************************************)
FOREMAN_API_VERSION == <<"v", "2">>
S_https == <<"h", "t", "t", "p", "s", ":", "/", "/">>
S_api == <<"/", "a", "p", "i", "/">>
S_colon == <<":">>
S_slash == <<"/">>
S_and == <<" ", "A", "N", "D", " ">>
S_eq == <<" ", "=", "=", " ">>
S_quote == <<"\"">>
S_comma == <<",", " ">>
K_id == <<"i", "d">>
K_name == <<"n", "a", "m", "e">>
K_error == <<"e", "r", "r", "o", "r">>
K_message == <<"m", "e", "s", "s", "a", "g", "e">>
K_full_messages == <<"f", "u", "l", "l", "_", "m", "e", "s", "s", "a", "g", "e", "s">>
K_results == <<"r", "e", "s", "u", "l", "t", "s">>
K_search == <<"s", "e", "a", "r", "c", "h">>

(***************************************************************************)
(* What a call hands back: a value, a ForemanError, or another exception.  *)
(***************************************************************************)
Return(v) == [kind |-> "return", value |-> v]
ForemanError(u, request, status_code, message) ==
    [kind |-> "ForemanError", url |-> u, status_code |-> status_code,
     message |-> message, request |-> request]
Raise(exc) == [kind |-> exc]
NoOutcome == [kind |-> "none"]

\* Foreman.__init__: the API root
BaseUrl(h, p) == S_https \o h \o S_colon \o str(PyInt(p)) \o S_api \o FOREMAN_API_VERSION

\* _get_resource_url with its three tests in a row instead of nested
flat_get_resource_url(resource_type, resource_id, component, component_id) ==
    LET u0 == url \o S_slash \o resource_type
        u1 == IF Truthy(resource_id) THEN u0 \o S_slash \o str(resource_id) ELSE u0
        u2 == IF Truthy(component) THEN u1 \o S_slash \o component.s ELSE u1
    IN  IF Truthy(component_id) THEN u2 \o S_slash \o str(component_id) ELSE u2

\* Foreman._get_resource_url
_get_resource_url(resource_type, resource_id, component, component_id) ==
    LET u0 == url \o S_slash \o resource_type
        u1 == u0 \o S_slash \o str(resource_id)
        u2 == u1 \o S_slash \o component.s
        u3 == u2 \o S_slash \o str(component_id)
    IN  IF Truthy(resource_id)
        THEN IF Truthy(component)
             THEN IF Truthy(component_id) THEN u3 ELSE u2
             ELSE u1
        ELSE u0

(***************************************************************************)
(* The verb wrappers, from the response on: `resp` is what requests.get,   *)
(* .post, .put or .delete handed back (status_code, url, decoded body).    *)
(***************************************************************************)

\* req.json().get('error').get('message'); None has no .get
ErrorMessage(resp) ==
    LET error == Get(resp.json, K_error)
    IN  IF error.t = "dict"
        THEN ForemanError(resp.url, resp.json, resp.status_code, Get(error, K_message))
        ELSE Raise("AttributeError")

\* Evaluating `'full_messages' in request_error.has_key`: a dict of Python 3
\* has no has_key; the bound method of Python 2 is not iterable.
HasKeyTest == IF py = 3 THEN Raise("AttributeError") ELSE Raise("TypeError")

\* Foreman._get_request
_get_request(resp) ==
    IF resp.status_code = 200 THEN Return(resp.json) ELSE ErrorMessage(resp)

\* Foreman._post_request
_post_request(resp) ==
    IF resp.status_code \in {200, 201}
    THEN Return(resp.json)
    ELSE LET request_error == Get(resp.json, K_error)
         IN  IF request_error.t /= "dict"
             THEN Raise("TypeError")
             ELSE IF Has(request_error, K_message)
             THEN ForemanError(resp.url, resp.json, resp.status_code,
                               Get(request_error, K_message))
             ELSE HasKeyTest

\* Foreman._put_request
_put_request(resp) ==
    IF resp.status_code = 200 THEN Return(resp.json) ELSE ErrorMessage(resp)

\* Foreman._delete_request
_delete_request(resp) ==
    IF resp.status_code = 200 THEN Return(resp.json) ELSE ErrorMessage(resp)

\* The request a verb wrapper issues
Request(verb, u, data) == [verb |-> verb, url |-> u, data |-> data]

(***************************************************************************)
(* The inputs of the calls and the answers of the server.                  *)
(***************************************************************************)
S_hosts == <<"h", "o", "s", "t", "s">>
S_domains == <<"d", "o", "m", "a", "i", "n", "s">>
S_host == <<"h", "o", "s", "t">>
S_power == <<"p", "o", "w", "e", "r">>
S_h1 == <<"h", "1">>
S_nic1 == <<"n", "i", "c", "1">>
K_mtu == <<"m", "t", "u">>
K_compute_profile_id ==
    <<"c", "o", "m", "p", "u", "t", "e", "_", "p", "r", "o", "f", "i", "l", "e", "_", "i", "d">>

ResourceTypes == {S_hosts, S_domains}
Names == {S_h1, <<>>}
FieldKeys == {K_id, K_name, K_mtu}
FieldValues(k) ==
    IF k = K_id THEN {PyInt(i) : i \in 0..MaxId}
    ELSE IF k = K_name THEN {PyStr(n) : n \in Names}
    ELSE {PyInt(0 - 1), PyInt(10)}

\* the item sequences of the dicts with n entries over FieldKeys
RECURSIVE ItemsOfLen(_)
ItemsOfLen(n) ==
    IF n = 0 THEN {<<>>}
    ELSE UNION {{Append(d, <<k, v>>) : v \in FieldValues(k)} :
                  <<d, k>> \in {x \in ItemsOfLen(n - 1) \X FieldKeys :
                                  ~Has(PyDict(x[1]), x[2])}}

\* identifiers and search filters: dicts of up to MaxFields entries
Mappings == {PyDict(d) : d \in UNION {ItemsOfLen(n) : n \in 0..MaxFields}}

\* search filters one of whose values is neither a string nor an integer
UntypedFilters ==
    {PyDict([d.d EXCEPT ![n] = <<d.d[n][1], None>>]) :
        <<d, n>> \in {x \in Mappings \X (1..MaxFields) : x[2] <= Len(x[1].d)}}

\* the search_data search_resource is called with
Filters == Mappings \cup UntypedFilters

\* payloads of post_resource and put_resource
Payloads == {PyDict(<<>>), PyDict(<< <<K_name, PyStr(S_h1)>> >>)}

\* additional_data of post_resource
Additional ==
    LET profile == <<K_compute_profile_id, PyInt(1)>>
        clash == <<S_host, PyDict(<< <<K_id, PyInt(1)>> >>)>>
    IN  {None, PyDict(<<>>), PyDict(<<profile>>), PyDict(<<clash>>),
         PyDict(<<profile, clash>>), PyDict(<<clash, profile>>)}

\* a resource as the server describes it; its ids are positive
Resource(i) == PyDict(<< <<K_id, PyInt(i)>>, <<K_name, PyStr(S_h1)>> >>)
Resources == {Resource(i) : i \in 1..MaxId}

RECURSIVE SeqsOfLen(_, _)
SeqsOfLen(S, n) ==
    IF n = 0 THEN {<<>>}
    ELSE {Append(q, x) : q \in SeqsOfLen(S, n - 1), x \in S}

\* the body of a collection endpoint: {results: [...]}
Collections ==
    {PyDict(<< <<K_results, PyList(l)>> >>) :
        l \in UNION {SeqsOfLen(Resources, n) : n \in 0..MaxResults}}

\* the body of a failing answer: {error: {message | full_messages | ...}}
ErrorBodies ==
    LET message == <<K_message, PyStr(<<"n", "o">>)>>
        full == <<K_full_messages, PyList(<<PyStr(<<"a">>), PyStr(<<"b">>)>>)>>
        other == <<K_name, PyStr(S_h1)>>
    IN  {PyDict(<< <<K_error, PyDict(e)>> >>) :
            e \in {<<message>>, <<full>>, <<other>>, <<message, full>>}}

Statuses == {200, 201, 404, 422}

\* what the server may answer to the request `req`: 200 with the endpoint's
\* body, 201 with that or with an error body, any other status with an error
\* body
Responses(req, bodies) ==
    {[status_code |-> s, url |-> req.url, json |-> b] :
        <<s, b>> \in ({200, 201} \X bodies) \cup ((Statuses \ {200}) \X ErrorBodies)}

(***************************************************************************)
(* The generic operations.                                                 *)
(***************************************************************************)
NoCall ==
    [name |-> "none", resource_type |-> <<>>, resource_id |-> None, data |-> None,
     resource |-> <<>>, additional_data |-> None, component |-> None,
     component_id |-> None]

\* a verb wrapper issues `req` and blocks at position `at`
Send(req, at) ==
    /\ sent' = <<req>>
    /\ recv' = <<>>
    /\ ret' = NoOutcome
    /\ outcome' = NoOutcome
    /\ pc' = at

\* the call ends without a request
Leave(result) ==
    /\ sent' = <<>>
    /\ recv' = <<>>
    /\ ret' = NoOutcome
    /\ outcome' = result
    /\ pc' = "done"

\* the answer `resp` arrives, the wrapper hands back `r`, the call ends with `result`
Finish(resp, r, result) ==
    /\ recv' = Append(recv, resp)
    /\ ret' = r
    /\ outcome' = result
    /\ pc' = "done"
    /\ UNCHANGED <<sent, op>>

client == <<py, hostname, port, auth, url>>

\* the loop of search_resource with strings emitted like integers, unquoted
RECURSIVE bare_SearchLoop(_, _, _)
bare_SearchLoop(search_data, n, search) ==
    IF n > Len(search_data.d) THEN search
    ELSE LET key == search_data.d[n][1]
             value == search_data.d[n][2]
             s1 == IF search /= <<>> THEN search \o S_and ELSE search
         IN  bare_SearchLoop(search_data, n + 1, s1 \o key \o S_eq \o str(value))

\* search_resource, the loop over search_data from its n-th key on, with
\* data['search'] = search so far
RECURSIVE SearchLoop(_, _, _)
SearchLoop(search_data, n, search) ==
    IF n > Len(search_data.d) THEN search
    ELSE LET key == search_data.d[n][1]
             value == search_data.d[n][2]
             s1 == IF search /= <<>> THEN search \o S_and ELSE search
             s2 == s1 \o key \o S_eq
             s3 == IF value.t = "int" THEN s2 \o str(value)
                   ELSE IF value.t = "str" THEN s2 \o S_quote \o value.s \o S_quote
                   ELSE s2
         IN  SearchLoop(search_data, n + 1, s3)

\* search_resource, up to its request
SearchRequest(resource_type, search_data) ==
    Request("GET", _get_resource_url(resource_type, None, None, None),
            PyDict(<< <<K_search, PyStr(SearchLoop(search_data, 1, <<>>))>> >>))

\* the tail of search_resource collapsing any non-empty result to its first
\* element (len(result) >= 1)
first_SearchResult(r) ==
    IF r.kind /= "return" THEN r
    ELSE LET result == Get(r.value, K_results)
         IN  IF result.t /= "list" THEN Raise("TypeError")
             ELSE IF Len(result.l) >= 1 THEN Return(result.l[1])
             ELSE Return(result)

\* search_resource, from the answer of _get_request on
SearchResult(r) ==
    IF r.kind /= "return" THEN r
    ELSE LET result == Get(r.value, K_results)
         IN  IF result.t /= "list" THEN Raise("TypeError")
             ELSE IF Len(result.l) = 1 THEN Return(result.l[1])
             ELSE Return(result)

\* Foreman._get_resource_url, called on its own
call_get_resource_url(resource_type, resource_id, component, component_id) ==
    /\ pc = "idle"
    /\ op' = [NoCall EXCEPT !.name = "_get_resource_url",
                            !.resource_type = resource_type,
                            !.resource_id = resource_id,
                            !.component = component,
                            !.component_id = component_id]
    /\ Leave(Return(PyStr(_get_resource_url(resource_type, resource_id,
                                            component, component_id))))
    /\ UNCHANGED client

\* Foreman.get_resources, up to its request
get_resources(resource_type) ==
    /\ pc = "idle"
    /\ op' = [NoCall EXCEPT !.name = "get_resources", !.resource_type = resource_type]
    /\ Send(Request("GET", _get_resource_url(resource_type, None, None, None), None),
            "get_resources")
    /\ UNCHANGED client

\* Foreman.get_resources, from the answer on
get_resources_answered ==
    /\ pc = "get_resources"
    /\ \E resp \in Responses(sent[Len(sent)], Collections) :
         LET r == _get_request(resp)
         IN  Finish(resp, r, IF r.kind = "return"
                             THEN Return(Get(r.value, K_results)) ELSE r)
    /\ UNCHANGED client

\* Foreman.search_resource, up to its request
search_resource(resource_type, search_data) ==
    /\ pc = "idle"
    /\ op' = [NoCall EXCEPT !.name = "search_resource",
                            !.resource_type = resource_type, !.data = search_data]
    /\ Send(SearchRequest(resource_type, search_data), "search_resource")
    /\ UNCHANGED client

\* Foreman.search_resource, from the answer on
search_resource_answered ==
    /\ pc = "search_resource"
    /\ \E resp \in Responses(sent[Len(sent)], Collections) :
         LET r == _get_request(resp)
         IN  Finish(resp, r, SearchResult(r))
    /\ UNCHANGED client

\* get_resource testing for a name before it tests for an id
name_first_get_resource(resource_type, data) ==
    /\ pc = "idle"
    /\ op' = [NoCall EXCEPT !.name = "get_resource",
                            !.resource_type = resource_type, !.data = data]
    /\ IF Has(data, K_name)
       THEN Send(SearchRequest(resource_type, data), "get_resource.search")
       ELSE IF Has(data, K_id) /\ Truthy(Get(data, K_id))
       THEN Send(Request("GET", _get_resource_url(resource_type, Get(data, K_id),
                                                  None, None), None),
                 "get_resource.get")
       ELSE Leave(Return(None))
    /\ UNCHANGED client

\* Foreman.get_resource, up to its first request
get_resource(resource_type, data) ==
    /\ pc = "idle"
    /\ op' = [NoCall EXCEPT !.name = "get_resource",
                            !.resource_type = resource_type, !.data = data]
    /\ IF Has(data, K_id)
       THEN LET resource_id == Get(data, K_id)
            IN  IF Truthy(resource_id)
                THEN Send(Request("GET", _get_resource_url(resource_type, resource_id,
                                                           None, None), None),
                          "get_resource.get")
                ELSE Leave(Return(None))
       ELSE IF Has(data, K_name)
       THEN Send(SearchRequest(resource_type, data), "get_resource.search")
       ELSE Leave(Return(None))
    /\ UNCHANGED client

\* get_resource, lines 221-222: the id taken from what search_resource returned
FoundId(resource) ==
    IF Truthy(resource)
    THEN IF resource.t = "dict" THEN Return(Get(resource, K_id))
         ELSE Raise("AttributeError")
    ELSE Return(None)

\* get_resource handing back what the search found, without the
\* single-resource GET
short_get_resource_searched ==
    /\ pc = "get_resource.search"
    /\ \E resp \in Responses(sent[Len(sent)], Collections) :
         LET r == _get_request(resp)
             found == SearchResult(r)
             id == IF found.kind = "return" THEN FoundId(found.value) ELSE found
         IN  Finish(resp, r, IF id.kind = "return" /\ Truthy(id.value) THEN found
                             ELSE IF id.kind = "return" THEN Return(None) ELSE id)
    /\ UNCHANGED client

\* get_resource sending its search once more when the first one failed
retrying_get_resource_searched ==
    /\ pc = "get_resource.search"
    /\ \E resp \in Responses(sent[Len(sent)], Collections) :
         LET r == _get_request(resp)
             found == SearchResult(r)
             id == IF found.kind = "return" THEN FoundId(found.value) ELSE found
         IN  IF r.kind /= "return" /\ Len(sent) = 1
             THEN /\ recv' = Append(recv, resp)
                  /\ ret' = r
                  /\ sent' = Append(sent, sent[1])
                  /\ UNCHANGED <<pc, op, outcome>>
             ELSE IF id.kind = "return" /\ Truthy(id.value)
             THEN /\ recv' = Append(recv, resp)
                  /\ ret' = r
                  /\ sent' = Append(sent, Request("GET",
                                _get_resource_url(op.resource_type, id.value, None, None),
                                None))
                  /\ pc' = "get_resource.get"
                  /\ UNCHANGED <<op, outcome>>
             ELSE Finish(resp, r, IF id.kind = "return" THEN Return(None) ELSE id)
    /\ UNCHANGED client

\* Foreman.get_resource, from the answer to its search to its second request
get_resource_searched ==
    /\ pc = "get_resource.search"
    /\ \E resp \in Responses(sent[Len(sent)], Collections) :
         LET r == _get_request(resp)
             found == SearchResult(r)
             id == IF found.kind = "return" THEN FoundId(found.value) ELSE found
         IN  IF id.kind = "return" /\ Truthy(id.value)
             THEN /\ recv' = Append(recv, resp)
                  /\ ret' = r
                  /\ sent' = Append(sent, Request("GET",
                                _get_resource_url(op.resource_type, id.value, None, None),
                                None))
                  /\ pc' = "get_resource.get"
                  /\ UNCHANGED <<op, outcome>>
             ELSE Finish(resp, r, IF id.kind = "return" THEN Return(None) ELSE id)
    /\ UNCHANGED client

\* Foreman.get_resource, from the answer to its single-resource GET on
get_resource_answered ==
    /\ pc = "get_resource.get"
    /\ \E resp \in Responses(sent[Len(sent)], Resources) :
         LET r == _get_request(resp)
         IN  Finish(resp, r, r)
    /\ UNCHANGED client

\* post_resource, the loop over additional_data.keys() from the n-th key on
RECURSIVE CopyKeys(_, _, _)
CopyKeys(additional_data, n, resource_data) ==
    IF n > Len(additional_data.d) THEN resource_data
    ELSE LET key == additional_data.d[n][1]
         IN  CopyKeys(additional_data, n + 1,
                      SetItem(resource_data, key, Get(additional_data, key)))

\* the body of post_resource with the wrapper set first and additional_data
\* copied over it
overridden_PostData(resource, data, additional_data) ==
    LET resource_data == SetItem(PyDict(<<>>), resource, data)
    IN  IF Truthy(additional_data)
        THEN CopyKeys(additional_data, 1, resource_data)
        ELSE resource_data

\* post_resource, the body it posts
PostData(resource, data, additional_data) ==
    LET resource_data == IF Truthy(additional_data)
                         THEN CopyKeys(additional_data, 1, PyDict(<<>>))
                         ELSE PyDict(<<>>)
    IN  SetItem(resource_data, resource, data)

\* Foreman.post_resource, up to its request
post_resource(resource_type, resource, data, additional_data) ==
    /\ pc = "idle"
    /\ op' = [NoCall EXCEPT !.name = "post_resource",
                            !.resource_type = resource_type, !.resource = resource,
                            !.data = data, !.additional_data = additional_data]
    /\ Send(Request("POST", _get_resource_url(resource_type, None, None, None),
                    PostData(resource, data, additional_data)),
            "post_resource")
    /\ UNCHANGED client

\* Foreman.post_resource, from the answer on
post_resource_answered ==
    /\ pc = "post_resource"
    /\ \E resp \in Responses(sent[Len(sent)], Resources) :
         LET r == _post_request(resp)
         IN  Finish(resp, r, r)
    /\ UNCHANGED client

\* Foreman.put_resource, up to its request
put_resource(resource_type, resource_id, data, component) ==
    /\ pc = "idle"
    /\ op' = [NoCall EXCEPT !.name = "put_resource",
                            !.resource_type = resource_type,
                            !.resource_id = resource_id,
                            !.data = data, !.component = component]
    /\ Send(Request("PUT", _get_resource_url(resource_type, resource_id, component, None),
                    data),
            "put_resource")
    /\ UNCHANGED client

\* Foreman.put_resource, from the answer on
put_resource_answered ==
    /\ pc = "put_resource"
    /\ \E resp \in Responses(sent[Len(sent)], Resources) :
         LET r == _put_request(resp)
         IN  Finish(resp, r, r)
    /\ UNCHANGED client

\* the URL of delete_resource with the id passed on as it is, without str()
raw_DeleteUrl(resource_type, data) ==
    _get_resource_url(resource_type, Get(data, K_id), None, None)

\* delete_resource, the URL it deletes
DeleteUrl(resource_type, data) ==
    LET resource_id == PyStr(str(Get(data, K_id)))
    IN  _get_resource_url(resource_type, resource_id, None, None)

\* Foreman.delete_resource, up to its request
delete_resource(resource_type, data) ==
    /\ pc = "idle"
    /\ op' = [NoCall EXCEPT !.name = "delete_resource",
                            !.resource_type = resource_type, !.data = data]
    /\ Send(Request("DELETE", DeleteUrl(resource_type, data), None), "delete_resource")
    /\ UNCHANGED client

\* Foreman.delete_resource, from the answer on
delete_resource_answered ==
    /\ pc = "delete_resource"
    /\ \E resp \in Responses(sent[Len(sent)], Resources) :
         LET r == _delete_request(resp)
         IN  Finish(resp, r, r)
    /\ UNCHANGED client

\* The caller goes on with the outcome; the instance keeps nothing of the call
\* (its only attributes are the ones __init__ sets).
returned ==
    /\ pc = "done"
    /\ pc' = "idle"
    /\ op' = NoCall
    /\ sent' = <<>>
    /\ recv' = <<>>
    /\ ret' = NoOutcome
    /\ outcome' = NoOutcome
    /\ UNCHANGED client

(***************************************************************************)
(* The specification: a client is constructed, then its methods are called *)
(* one after the other, each blocking until the server has answered.       *)
(***************************************************************************)
ResourceIds == {None, PyStr(<<>>), PyStr(S_h1)} \cup {PyInt(i) : i \in 0..MaxId}
Components == {None, PyStr(<<>>), PyStr(S_power)}
ComponentIds == {None, PyInt(0), PyInt(1), PyStr(S_nic1)}

Init ==
    /\ py \in {2, 3}
    /\ hostname = <<"f", "m">>
    /\ port = 443
    /\ auth = <<"admin", "secret">>
    /\ url = BaseUrl(hostname, port)
    /\ pc = "idle"
    /\ op = NoCall
    /\ sent = <<>>
    /\ recv = <<>>
    /\ ret = NoOutcome
    /\ outcome = NoOutcome

Next ==
    \/ \E resource_type \in ResourceTypes, resource_id \in ResourceIds,
          component \in Components, component_id \in ComponentIds :
         call_get_resource_url(resource_type, resource_id, component, component_id)
    \/ \E resource_type \in ResourceTypes : get_resources(resource_type)
    \/ get_resources_answered
    \/ \E resource_type \in ResourceTypes, search_data \in Filters :
         search_resource(resource_type, search_data)
    \/ search_resource_answered
    \/ \E resource_type \in ResourceTypes, data \in Mappings :
         get_resource(resource_type, data)
    \/ get_resource_searched
    \/ get_resource_answered
    \/ \E resource_type \in ResourceTypes, data \in Payloads,
          additional_data \in Additional :
         post_resource(resource_type, S_host, data, additional_data)
    \/ post_resource_answered
    \/ \E resource_type \in ResourceTypes, resource_id \in ResourceIds,
          data \in Payloads, component \in Components :
         put_resource(resource_type, resource_id, data, component)
    \/ put_resource_answered
    \/ \E resource_type \in ResourceTypes, data \in Mappings :
         delete_resource(resource_type, data)
    \/ delete_resource_answered
    \/ returned

Spec == Init /\ [][Next]_vars

(***************************************************************************)
(* The claims.  `ret` is what the wrapper made of the latest answer, so    *)
(* it belongs to the exchange sent[Len(recv)], recv[Len(recv)].            *)
(***************************************************************************)

\* the statuses on which the wrapper of `verb` is to return the body
OkStatus(verb) == IF verb = "POST" THEN {200, 201} ELSE {200}

\* the latest exchange has been answered with a failing status and an error
\* body, {error: {...}}
Failed ==
    /\ recv /= <<>>
    /\ recv[Len(recv)].status_code \notin OkStatus(sent[Len(recv)].verb)
    /\ Get(recv[Len(recv)].json, K_error).t = "dict"

\* the strings of a list of Python strings
Strings(l) == [n \in 1..Len(l.l) |-> l.l[n].s]

\* message > full_messages joined with ", " > the raw error object
PreferredMessage(error) ==
    IF Has(error, K_message) THEN Get(error, K_message)
    ELSE IF Has(error, K_full_messages)
    THEN PyStr(Join(S_comma, Strings(Get(error, K_full_messages))))
    ELSE error

\* C1: whenever a verb wrapper gets a failing response, it raises a
\* ForemanError whose message is the error body's `message` if present,
\* else its `full_messages` joined with ", ", else the raw error object;
\* no other exception takes the place of the ForemanError.
C1_MessagePreference ==
    Failed => /\ ret.kind = "ForemanError"
              /\ ret.message = PreferredMessage(Get(recv[Len(recv)].json, K_error))

\* the `results` of the n-th answer
ResultsOf(n) == Get(recv[n].json, K_results).l

\* a get_resource call by lookup fields: a name and no id
ByName == op.name = "get_resource" /\ ~Has(op.data, K_id) /\ Has(op.data, K_name)

\* C2: get_resource by name returns None, without raising and without a
\* single-resource GET, when its search succeeds with zero matches and
\* when it succeeds with two or more.
C2_UnresolvedIsNone ==
    (/\ pc = "done"
     /\ ByName
     /\ recv[1].status_code = 200
     /\ Len(ResultsOf(1)) /= 1)
    => outcome = Return(None) /\ Len(sent) = 1

\* C3: a wrapper returns the decoded body exactly when the status is 200
\* (POST: 200 or 201); on every other status, 201 for GET, PUT and DELETE
\* included, it raises a ForemanError that carries the response's status
\* and the request's URL (stated for the failing answers that carry an
\* error body).
C3_StatusMapping ==
    /\ recv /= <<>> =>
          (ret.kind = "return" <=>
             recv[Len(recv)].status_code \in OkStatus(sent[Len(recv)].verb))
    /\ ret.kind = "return" => ret.value = recv[Len(recv)].json
    /\ Failed => /\ ret.kind = "ForemanError"
                 /\ ret.status_code = recv[Len(recv)].status_code
                 /\ ret.url = sent[Len(recv)].url

\* the pieces of s between its "/"s, from position n on, `piece` being the
\* one under way
RECURSIVE SplitAt(_, _, _)
SplitAt(s, n, piece) ==
    IF n > Len(s) THEN <<piece>>
    ELSE IF s[n] = "/" THEN <<piece>> \o SplitAt(s, n + 1, <<>>)
    ELSE SplitAt(s, n + 1, Append(piece, s[n]))

\* the path segments of u after the API root
Path(u) == Tail(SplitAt(SubSeq(u, Len(url) + 1, Len(u)), 1, <<>>))

\* an argument is supplied when it is not None
Supplied(v) == v /= None

\* The URL a _get_resource_url call returned is the API root followed by
\* resource_type[/resource_id[/component[/component_id]]], where Given(_)
\* tells the arguments that count as given.
UrlNesting(Given(_)) ==
    (pc = "done" /\ op.name = "_get_resource_url") =>
        LET u == outcome.value.s
            path == Path(u)
            id == Given(op.resource_id)
            comp == id /\ Given(op.component)
            cid == comp /\ Given(op.component_id)
            contiguous == IF cid THEN 3 ELSE IF comp THEN 2 ELSE IF id THEN 1 ELSE 0
        IN  /\ SubSeq(u, 1, Len(url)) = url
            /\ path[1] = op.resource_type
            /\ Len(path) >= 2 <=> Given(op.resource_id)
            /\ Len(path) >= 2 => path[2] = str(op.resource_id)
            /\ Len(path) >= 3 <=> Given(op.component) /\ Given(op.resource_id)
            /\ Len(path) >= 3 => path[3] = op.component.s
            /\ Len(path) >= 4 <=> /\ Given(op.component_id)
                                  /\ Given(op.component)
                                  /\ Given(op.resource_id)
            /\ Len(path) >= 4 => path[4] = str(op.component_id)
            /\ Len(path) <= 1 + contiguous

\* C4 as claimed: resource_id is appended whenever it is supplied (not
\* None), component iff component and resource_id are supplied,
\* component_id iff all three are, and the path is never deeper than 1 +
\* the number of arguments supplied contiguously from the left.
C4_SuppliedNesting == UrlNesting(Supplied)

\* C4 as amended: the same nesting, where an argument counts only if it is
\* truthy: None, 0 and the empty string are not appended and end the path.
C4_TruthyNesting == UrlNesting(Truthy)

\* C4 witness: a call with all three arguments given returned a URL of four
\* path segments.
C4_Witness ==
    /\ pc = "done"
    /\ op.name = "_get_resource_url"
    /\ Truthy(op.resource_id) /\ Truthy(op.component) /\ Truthy(op.component_id)
    /\ Len(Path(outcome.value.s)) = 4

\* a call that searches: search_resource, or get_resource by name
Searching == op.name = "search_resource" \/ ByName

\* the clause of one filter entry: key == "value" for a string, key == value
\* for an integer
Clause(item) ==
    item[1] \o S_eq \o
        (IF item[2].t = "str" THEN S_quote \o item[2].s \o S_quote ELSE str(item[2]))

\* the clauses of the filter `data`, in its order, joined by " AND "
Query(data) == PyStr(Join(S_and, [n \in 1..Len(data.d) |-> Clause(data.d[n])]))

\* every value of the filter `data` is a string or an integer
Typed(data) == \A n \in 1..Len(data.d) : data.d[n][2].t \in {"str", "int"}

\* C5: the search query of a filter of strings and integers holds one
\* `key == value` clause per filter entry, in the filter's iteration order,
\* joined by " AND ", string values in double quotes and integers unquoted;
\* the empty filter gives the empty string.
C5_SearchQuery ==
    (Searching /\ Typed(op.data) /\ sent /= <<>>) =>
        LET search == Get(sent[1].data, K_search)
        IN  /\ Has(sent[1].data, K_search)
            /\ search = Query(op.data)
            /\ op.data.d = <<>> => search = PyStr(<<>>)

\* C5 witness: the filter {name: "h1", mtu: 10} was sent as
\* name == "h1" AND mtu == 10.
C5_Witness ==
    /\ op.name = "search_resource"
    /\ op.data = PyDict(<< <<K_name, PyStr(S_h1)>>, <<K_mtu, PyInt(10)>> >>)
    /\ sent /= <<>>
    /\ Get(sent[1].data, K_search).s =
         <<"n", "a", "m", "e", " ", "=", "=", " ", "\"", "h", "1", "\"",
           " ", "A", "N", "D", " ", "m", "t", "u", " ", "=", "=", " ", "1", "0">>

\* C6: search_resource returns the single element itself when `results`
\* has exactly one element, and the `results` collection unchanged when it
\* has none or two or more.
C6_Collapse ==
    (pc = "done" /\ op.name = "search_resource" /\ recv[1].status_code = 200) =>
        LET results == Get(recv[1].json, K_results)
        IN  outcome = Return(IF Len(results.l) = 1 THEN results.l[1] ELSE results)

\* C6 witness: a search answered with one element returned that element.
C6_Witness ==
    /\ pc = "done"
    /\ op.name = "search_resource"
    /\ recv[1].status_code = 200
    /\ Len(ResultsOf(1)) = 1
    /\ outcome = Return(ResultsOf(1)[1])

\* a get_resource call whose identifier carries an integer id
ById == op.name = "get_resource" /\ Has(op.data, K_id) /\ Get(op.data, K_id).t = "int"

\* the call's only request is a GET of base/resource_type/id, no search,
\* and on status 200 its decoded body is what the call returns
DirectGet ==
    /\ Len(sent) = 1
    /\ sent[1].verb = "GET"
    /\ sent[1].data = None
    /\ SubSeq(sent[1].url, 1, Len(url)) = url
    /\ Path(sent[1].url) = <<op.resource_type, str(Get(op.data, K_id))>>
    /\ (pc = "done" /\ recv[1].status_code = 200) => outcome = Return(recv[1].json)
    /\ (pc = "done" /\ recv[1].status_code /= 200) => outcome.kind /= "return"

SingleMatch ==
    /\ recv /= <<>>
    /\ recv[1].status_code = 200
    /\ Len(ResultsOf(1)) = 1

\* C8: get_resource by name first sends a search GET to base/resource_type
\* with the query of the identifier's fields; a second request is sent
\* only after that search was answered with exactly one match, always
\* then, and it is a GET of base/resource_type/i for the match's id i;
\* the call returns the body of that second GET.
C8_SearchThenGet ==
    (ByName /\ sent /= <<>>) =>
        /\ sent[1].verb = "GET"
        /\ SubSeq(sent[1].url, 1, Len(url)) = url
        /\ Path(sent[1].url) = <<op.resource_type>>
        /\ sent[1].data = PyDict(<< <<K_search, Query(op.data)>> >>)
        /\ Len(sent) <= 2
        /\ Len(sent) <= Len(recv) + 1
        /\ SingleMatch <=> Len(sent) = 2
        /\ Len(sent) = 2 =>
             /\ sent[2].verb = "GET"
             /\ sent[2].data = None
             /\ Path(sent[2].url) =
                  <<op.resource_type, str(Get(ResultsOf(1)[1], K_id))>>
        /\ (pc = "done" /\ Len(recv) = 2 /\ recv[2].status_code = 200) =>
             outcome = Return(recv[2].json)
        /\ (pc = "done" /\ outcome.kind = "return" /\ outcome.value /= None) =>
             Len(recv) = 2

\* C8 witness: a search by name matched one resource, whose single-resource
\* GET was then answered 200 and returned.
C8_Witness ==
    /\ pc = "done"
    /\ ByName
    /\ SingleMatch
    /\ Len(sent) = 2 /\ Len(recv) = 2
    /\ recv[2].status_code = 200
    /\ outcome = Return(recv[2].json)

\* C9: post_resource sends exactly one POST, to base/resource_type, whose
\* body maps resource to the payload, also when additional_data has that
\* key, and carries every other key of additional_data at top level and
\* nothing else; without additional_data the body is {resource: payload};
\* on 200 or 201 the decoded response body is returned as it is.
C9_PostBody ==
    (op.name = "post_resource" /\ pc /= "idle") =>
        LET body == sent[1].data
            extra == op.additional_data
        IN  /\ Len(sent) = 1
            /\ sent[1].verb = "POST"
            /\ SubSeq(sent[1].url, 1, Len(url)) = url
            /\ Path(sent[1].url) = <<op.resource_type>>
            /\ Get(body, op.resource) = op.data
            /\ \A n, k \in 1..Len(body.d) : body.d[n][1] = body.d[k][1] => n = k
            /\ \A n \in 1..Len(body.d) :
                 \/ body.d[n][1] = op.resource
                 \/ extra /= None /\ Has(extra, body.d[n][1])
            /\ extra /= None =>
                 \A n \in 1..Len(extra.d) :
                    extra.d[n][1] /= op.resource =>
                        Get(body, extra.d[n][1]) = extra.d[n][2]
            /\ (extra = None \/ extra = PyDict(<<>>)) =>
                 body = PyDict(<< <<op.resource, op.data>> >>)
            /\ (pc = "done" /\ recv[1].status_code \in {200, 201}) =>
                 outcome = Return(recv[1].json)

\* C9 witness: a POST whose additional_data holds the wrapper's key and
\* another key was answered 201 with a resource, which was returned.
C9_Witness ==
    /\ pc = "done"
    /\ op.name = "post_resource"
    /\ op.additional_data /= None
    /\ Has(op.additional_data, op.resource)
    /\ Has(op.additional_data, K_compute_profile_id)
    /\ recv[1].status_code = 201
    /\ recv[1].json \in Resources
    /\ outcome = Return(recv[1].json)

\* C10: delete_resource never resolves by name: whatever the identifier, it
\* issues exactly one request, a DELETE, and no search or other GET; with
\* an integer id i in the identifier the DELETE goes to
\* base/resource_type/i; a non-200 answer with body {error: {message: m}}
\* raises a ForemanError with that status and the message m.
C10_DeleteOnly ==
    (op.name = "delete_resource" /\ pc /= "idle") =>
        /\ Len(sent) = 1
        /\ sent[1].verb = "DELETE"
        /\ sent[1].data = None
        /\ SubSeq(sent[1].url, 1, Len(url)) = url
        /\ (Has(op.data, K_id) /\ Get(op.data, K_id).t = "int") =>
             Path(sent[1].url) = <<op.resource_type, str(Get(op.data, K_id))>>
        /\ (pc = "done" /\ recv[1].status_code /= 200
               /\ Get(recv[1].json, K_error).t = "dict"
               /\ Has(Get(recv[1].json, K_error), K_message)) =>
             /\ outcome.kind = "ForemanError"
             /\ outcome.status_code = recv[1].status_code
             /\ outcome.message = Get(Get(recv[1].json, K_error), K_message)

\* C10 witness: the DELETE of an identifier with an id and a name was
\* answered 404 with a message, and the ForemanError carries both.
C10_Witness ==
    /\ pc = "done"
    /\ op.name = "delete_resource"
    /\ Has(op.data, K_id) /\ Has(op.data, K_name)
    /\ recv[1].status_code = 404
    /\ Has(Get(recv[1].json, K_error), K_message)
    /\ outcome.kind = "ForemanError"
    /\ outcome.status_code = 404

\* the text after " == " in each clause of the query `search`, given the
\* keys of the filter it was built from: what lies between one key's " == "
\* and the next " AND " (or the end)
RECURSIVE ValuesAt(_, _, _)
ValuesAt(search, data, n) ==
    IF n > Len(data.d) THEN <<>>
    ELSE LET lead == Len(data.d[n][1]) + Len(S_eq) + (IF n > 1 THEN Len(S_and) ELSE 0)
             rest == SubSeq(search, lead + 1, Len(search))
             AndAt(k) == /\ k + Len(S_and) - 1 <= Len(rest)
                         /\ SubSeq(rest, k, k + Len(S_and) - 1) = S_and
             stop == IF \E k \in 1..Len(rest) : AndAt(k)
                     THEN CHOOSE k \in 1..Len(rest) :
                            AndAt(k) /\ \A j \in 1..(k - 1) : ~AndAt(j)
                     ELSE Len(rest) + 1
         IN  <<SubSeq(rest, 1, stop - 1)>>
                 \o ValuesAt(SubSeq(rest, stop, Len(rest)), data, n + 1)

\* C11: a search filter with a value that is neither a string nor an
\* integer makes search_resource fail with a type error before any request
\* is sent; no query that is sent has a clause whose value is missing, and
\* none lacks a clause of the filter.
C11_FailFast ==
    /\ (op.name = "search_resource" /\ ~Typed(op.data)) =>
          pc = "done" /\ sent = <<>> /\ outcome = Raise("TypeError")
    /\ (op.name = "search_resource" /\ sent /= <<>>) =>
          LET values == ValuesAt(Get(sent[1].data, K_search).s, op.data, 1)
          IN  /\ Len(values) = Len(op.data.d)
              /\ \A n \in 1..Len(values) : values[n] /= <<>>

\* the n-th exchange of the call was answered with a failing status
FailedAt(n) == recv[n].status_code \notin OkStatus(sent[n].verb)

\* no request of the call was issued twice, and a failing answer ended the
\* call with an exception, its request being the last one issued
NoRetry ==
    /\ \A n, k \in 1..Len(sent) : sent[n] = sent[k] => n = k
    /\ \A n \in 1..Len(recv) :
         FailedAt(n) => /\ n = Len(sent)
                        /\ pc = "done"
                        /\ outcome.kind \notin {"return", "none"}
    /\ (ByName /\ recv /= <<>> /\ FailedAt(1)) => Len(sent) = 1
    /\ url = BaseUrl(hostname, port)

\* C12: no request is ever issued a second time; once a request of an
\* operation is answered with a failing status the operation raises to its
\* caller and issues no further request (so a get_resource by name whose
\* search fails sends no single-resource GET); and no step, of a failing
\* call or any other, changes the client's base URL, hostname, port or
\* credentials.
C12_NoRetry ==
    /\ []NoRetry
    /\ [][UNCHANGED client]_vars
    /\ [][pc = "done" => pc' = "idle" /\ sent' = <<>>]_vars
    /\ [][(pc /= "idle" /\ pc' /= "idle") =>
            /\ Len(sent') >= Len(sent)
            /\ SubSeq(sent', 1, Len(sent)) = sent]_vars

\* C12 witness: a get_resource by name whose search was answered 404 raised
\* a ForemanError after that one request, the client's URL being the one
\* built at construction.
C12_Witness ==
    /\ pc = "done"
    /\ ByName
    /\ Len(recv) = 1
    /\ recv[1].status_code = 404
    /\ Len(sent) = 1
    /\ outcome.kind = "ForemanError"
    /\ url = BaseUrl(hostname, port)

====
